---------------------------- MODULE Spec2Model ----------------------------
(***************************************************************************)
(* Model of the model-selection and cross-validation engine of the         *)
(* seizure prediction pipeline:                                            *)
(*   src/src/python/classification/seizure_modeling.py                     *)
(*   src/src/python/wavelet_classification.py                              *)
(*                                                                         *)
(* The module holds one specification per component:                       *)
(*   SpecCV        get_cv_generator (fold construction)                    *)
(*   SpecSplit     split_experiment_data / random_split (resampling)       *)
(*   SpecRegistry  get_model_class / get_model (the model registry)        *)
(*   SpecSearch    select_model (the grid search and its workers)          *)
(*   SpecWorkers   select_model with an estimator that draws random numbers*)
(*   SpecReport    predict / get_report / cm_report (the evaluation step)  *)
(*   SpecRun       run_classification (train or reuse a model, then score) *)
(***************************************************************************)
EXTENDS Integers, Sequences, FiniteSets, Bags, TLC

VARIABLES
    training_data,   \* the labeled frame: a sequence of rows [segment, frame, Preictal]
    cv,              \* the cross-validation generator: a sequence of folds
    cv_status,       \* "none" | "ok" | "error" : outcome of get_cv_generator
    train_interictal,\* split_experiment_data: the interictal frame
    train_preictal,  \* split_experiment_data: the preictal frame
    split_args,      \* training_ratio, do_downsample, downsample_ratio of the calls
    np_random,       \* state of the process-wide generator numpy.random
    first_call,      \* the first call of split_experiment_data, with its results
    last_call,       \* the latest call of split_experiment_data, with its results
    method,          \* the method name given to the registry
    model_params,    \* the caller's override mapping: <<>> (None) or <<dict>>
    ill_posed,       \* whether l1_min_c is ill-posed for the training data
    reg_in,          \* the override mapping as it was before the call
    reg_out,         \* what the registry call returned or raised
    processes,       \* select_model: n_jobs of the grid search
    score_table,     \* per configuration, the number of folds it scores 1 on
    pc,              \* select_model: where the run is
    configs,         \* the configurations of the grid, in enumeration order
    next_task,       \* the next fold x configuration evaluation to dispatch
    running,         \* the busy workers: evaluation and generator state of each
    idle,            \* the free workers: the bag of their generator states
    out,             \* the scores collected, by evaluation
    completed,       \* how many evaluations have finished
    overtaken,       \* some evaluation finished before an earlier one did
    result,          \* what the grid search selected and refit
    scored_from,     \* which output of the estimator the scorer read last
    clf,             \* evaluation: the fitted classifier handed to predict / get_report
    test_data_y,     \* evaluation: the true labels of the held-out rows
    predictions,     \* evaluation: what predict returned
    report,          \* evaluation: what get_report returned or raised
    run_args,        \* run_classification: its arguments
    run_pc,          \* run_classification: where the run is
    model,           \* run_classification: the local variable model
    model_file,      \* run_classification: the local variable model_file
    run_scores       \* run_classification: what write_scores returned

cvVars == <<training_data, cv, cv_status>>
splitVars == <<train_interictal, train_preictal, split_args, np_random,
               first_call, last_call>>
regVars == <<method, model_params, ill_posed, reg_in, reg_out>>
searchVars == <<processes, score_table, pc, configs, next_task, running,
                idle, out,
                completed, overtaken, result, scored_from>>
reportVars == <<clf, test_data_y, predictions, report>>
runVars == <<run_args, run_pc, model, model_file, run_scores>>
vars == <<cvVars, splitVars, regVars, searchVars, reportVars, runVars>>

\* A component a specification does not exercise stays as it is here.
CvIdle ==
    /\ training_data = <<>>
    /\ cv = [split |-> FALSE, folds |-> <<>>]
    /\ cv_status = "none"

SplitIdle ==
    /\ train_interictal = <<>> /\ train_preictal = <<>>
    /\ split_args = <<>> /\ np_random = 0
    /\ first_call = <<>> /\ last_call = <<>>

NoEstimator == [family |-> "none", args |-> <<>>]
NoResult == [call |-> "none", status |-> "none", estimator |-> NoEstimator,
             param_grid |-> <<>>]

RegIdle ==
    /\ method = "" /\ model_params = <<>> /\ ill_posed = FALSE
    /\ reg_in = <<>> /\ reg_out = NoResult

NoSelection == [best_index |-> 0, best_params |-> <<>>, grid_scores |-> <<>>,
                refit_rows |-> {}, refit_params |-> <<>>]

SearchIdle ==
    /\ processes = 1 /\ score_table = <<>> /\ pc = "idle"
    /\ configs = <<>> /\ next_task = 1 /\ running = {} /\ idle = EmptyBag
    /\ out = <<>> /\ completed = 0 /\ overtaken = FALSE
    /\ result = NoSelection /\ scored_from = "none"

NoReport == [status |-> "none", used |-> "none", cm |-> <<>>, table |-> <<>>]
NoPredictions == [kind |-> "none", vals |-> <<>>]

ReportIdle ==
    /\ clf = <<>> /\ test_data_y = <<>>
    /\ predictions = NoPredictions /\ report = NoReport

Unbound == "unbound"              \* a local variable no assignment has reached

RunIdle ==
    /\ run_args = <<>> /\ run_pc = "idle" /\ model = Unbound
    /\ model_file = "None" /\ run_scores = <<>>

-----------------------------------------------------------------------------
(* Bounds of the model *)

MaxSegs == 12          \* most segments in a dataset
MaxRowsPerSeg == 2     \* most rows (frames) of one segment

(* Program constants *)

N_FOLDS == 10          \* k_fold_kwargs = dict(n_folds=10, ...)

-----------------------------------------------------------------------------
(* Data frames *)

Labels == {0, 1}

\* The smallest dataset the model builds has one segment fewer than the fold
\* count, so that the library's "more folds than samples" error is reachable.
MinSegs == N_FOLDS - 1

\* A frame built from one label per segment: segment s contributes
\* rowsI rows when interictal (label 0) and rowsP rows when preictal (label 1),
\* in segment order, as the (segment, frame) index of the frames does.
RECURSIVE MakeFrame(_, _, _, _)
MakeFrame(segLabels, rowsI, rowsP, s) ==
    IF s > Len(segLabels) THEN <<>>
    ELSE LET n == IF segLabels[s] = 0 THEN rowsI ELSE rowsP
         IN  [i \in 1..n |-> [segment |-> s, frame |-> i, Preictal |-> segLabels[s]]]
             \o MakeFrame(segLabels, rowsI, rowsP, s + 1)

\* One label per segment for ni interictal and np preictal segments: the
\* interictal block first (the order interictal.append(preictal) gives), or
\* the two classes alternating while both last.
RECURSIVE SegLabelSeq(_, _, _)
SegLabelSeq(ni, np, alternate) ==
    IF ni = 0 THEN [k \in 1..np |-> 1]
    ELSE IF np = 0 THEN [k \in 1..ni |-> 0]
    ELSE IF alternate THEN <<0, 1>> \o SegLabelSeq(ni - 1, np - 1, alternate)
    ELSE [k \in 1..ni |-> 0] \o [k \in 1..np |-> 1]

Frames ==
    { MakeFrame(SegLabelSeq(ni, np, alt), ri, rp, 1) :
        ni \in 0..MaxSegs, np \in 0..MaxSegs, alt \in BOOLEAN,
        ri \in 1..MaxRowsPerSeg, rp \in 1..MaxRowsPerSeg }

RowsOf(frame) == 1..Len(frame)
SegmentsOf(frame) == { frame[i].segment : i \in RowsOf(frame) }
SegmentIds(frame, idx) == { frame[i].segment : i \in idx }

-----------------------------------------------------------------------------
(* sklearn.cross_validation.StratifiedKFold(y, n_folds, random_state),      *)
(* shuffle left at its default False: random_state is then unused and the   *)
(* folds are a function of y alone.                                         *)

\* KFold(max(c, n_folds), n_folds) without shuffling: contiguous blocks, the
\* first (m % n_folds) blocks one longer.  The fold (0-based) of the sample
\* of 0-based rank j among the c samples of its label.
KFoldOfRank(j, c) ==
    LET m    == IF c > N_FOLDS THEN c ELSE N_FOLDS
        base == m \div N_FOLDS
        rem  == m % N_FOLDS
    IN  IF j < rem * (base + 1)
        THEN j \div (base + 1)
        ELSE rem + ((j - rem * (base + 1)) \div base)

\* test_folds: each sample's test fold, assigned label by label
TestFolds(y) ==
    [i \in 1..Len(y) |->
        KFoldOfRank(Cardinality({k \in 1..(i - 1) : y[k] = y[i]}),
                    Cardinality({k \in 1..Len(y) : y[k] = y[i]}))]

\* a dropped-rows variant: the train mask taken as "a later fold"
FoldOfLater(tf, f) ==
    [train |-> {i \in DOMAIN tf : tf[i] > f - 1},
     test  |-> {i \in DOMAIN tf : tf[i] = f - 1}]

\* _iter_test_masks / __iter__: test mask is test_folds == i, train its negation
FoldOf(tf, f) ==
    [train |-> {i \in DOMAIN tf : tf[i] # f - 1},
     test  |-> {i \in DOMAIN tf : tf[i] = f - 1}]

\* The generator: "error" when n_folds exceeds the number of samples
\* (ValueError of the KFold base class), else the n_folds folds.
StratifiedKFold(y) ==
    IF N_FOLDS > Len(y)
    THEN [status |-> "error", folds |-> <<>>]
    ELSE [status |-> "ok",
          folds  |-> [f \in 1..N_FOLDS |-> FoldOf(TestFolds(y), f)]]

-----------------------------------------------------------------------------
(* dataset.SegmentCrossValidator: collapse to one label per segment, run    *)
(* the base generator over the segments, expand back to rows.               *)

SegmentList(frame) ==
    LET segs == SegmentsOf(frame)
    IN  [k \in 1..Cardinality(segs) |->
            CHOOSE s \in segs : Cardinality({t \in segs : t < s}) = k - 1]

\* representative label of a segment: the majority label of its rows
SegmentLabel(frame, s) ==
    LET ones  == Cardinality({i \in RowsOf(frame) :
                      frame[i].segment = s /\ frame[i].Preictal = 1})
        zeros == Cardinality({i \in RowsOf(frame) :
                      frame[i].segment = s /\ frame[i].Preictal = 0})
    IN  IF ones > zeros THEN 1 ELSE 0

\* rows whose segment is among the segments at the positions idx
ExpandSegments(frame, segs, idx) ==
    {i \in RowsOf(frame) : \E k \in idx : segs[k] = frame[i].segment}

SegmentCrossValidator(frame) ==
    LET segs == SegmentList(frame)
        base == StratifiedKFold([k \in 1..Len(segs) |-> SegmentLabel(frame, segs[k])])
    IN  IF base.status = "error" THEN base
        ELSE [status |-> "ok",
              folds  |-> [f \in 1..Len(base.folds) |->
                  [train |-> ExpandSegments(frame, segs, base.folds[f].train),
                   test  |-> ExpandSegments(frame, segs, base.folds[f].test)]]]

-----------------------------------------------------------------------------
(* get_cv_generator *)

\* a variant that hands the rows to the per-row generator whatever the flag
get_cv_generator_rows(frame, do_segment_split) ==
    StratifiedKFold([i \in RowsOf(frame) |-> frame[i].Preictal])

get_cv_generator(frame, do_segment_split) ==
    IF do_segment_split
    THEN SegmentCrossValidator(frame)
    ELSE StratifiedKFold([i \in RowsOf(frame) |-> frame[i].Preictal])

-----------------------------------------------------------------------------
(* The model registry: get_model_class and get_model.                       *)
(* A parameter grid is a sequence of dicts (a bare dict is the sequence of  *)
(* that one dict, as GridSearchCV reads it); a dict maps an axis name to a  *)
(* value, which is a list of candidates or a bare (non-list) value.         *)

Methods == {"logistic", "svm", "mirowski-svm", "sgd", "random-forest",
            "nearest-centroid", "knn", "bagging"}

Lst(vals) == [list |-> TRUE, vals |-> vals]
Bare(val) == [list |-> FALSE, vals |-> <<val>>]

Estimator(family, args) == [family |-> family, args |-> args]

\* a dict with one more item: d[key] = val
SetItem(d, key, val) ==
    [k \in DOMAIN d \cup {key} |-> IF k = key THEN val ELSE d[k]]

get_model_class(m) ==
    IF m = "logistic" THEN [status |-> "ok", family |-> "LogisticRegression"]
    ELSE IF m = "svm" THEN [status |-> "ok", family |-> "SVC"]
    ELSE IF m = "mirowski-svm" THEN [status |-> "ok", family |-> "SVC"]
    ELSE IF m = "sgd" THEN [status |-> "ok", family |-> "SGDClassifier"]
    ELSE IF m = "random-forest" THEN [status |-> "ok", family |-> "RandomForestClassifier"]
    ELSE IF m = "nearest-centroid" THEN [status |-> "ok", family |-> "NearestCentroid"]
    ELSE IF m = "knn" THEN [status |-> "ok", family |-> "KNeighborsClassifier"]
    ELSE IF m = "bagging" THEN [status |-> "ok", family |-> "BaggingClassifier"]
    ELSE [status |-> "NotImplementedError", family |-> "none"]

\* the estimator each branch of get_model constructs
ModelEstimator(m) ==
    IF m = "logistic"
    THEN Estimator("LogisticRegression", <<"C=1", "random_state=random_state">>)
    ELSE IF m = "svm"
    THEN Estimator("SVC", <<"probability=True", "class_weight=auto", "cache_size=1000">>)
    ELSE IF m = "mirowski-svm"
    THEN Estimator("SVC", <<"probability=True", "class_weight=auto">>)
    ELSE IF m = "sgd" THEN Estimator("SGDClassifier", <<>>)
    ELSE IF m = "random-forest" THEN Estimator("RandomForestClassifier", <<>>)
    ELSE IF m = "nearest-centroid" THEN Estimator("NearestCentroid", <<>>)
    ELSE IF m = "knn" THEN Estimator("KNeighborsClassifier", <<>>)
    ELSE IF m = "bagging" THEN Estimator("BaggingClassifier", <<"base_estimator=base">>)
    ELSE NoEstimator

\* the default param_grid each branch of get_model sets
DefaultGrid(m) ==
    IF m = "logistic"
    THEN << [C |-> Lst(<<"linspace(min_c,1e5,10)[0]", "linspace(min_c,1e5,10)[1]",
                        "linspace(min_c,1e5,10)[2]", "linspace(min_c,1e5,10)[3]",
                        "linspace(min_c,1e5,10)[4]", "linspace(min_c,1e5,10)[5]",
                        "linspace(min_c,1e5,10)[6]", "linspace(min_c,1e5,10)[7]",
                        "linspace(min_c,1e5,10)[8]", "linspace(min_c,1e5,10)[9]">>),
             penalty |-> Lst(<<"l1", "l2">>),
             random_state |-> Lst(<<"random_state">>)] >>
    ELSE IF m = "svm"
    THEN << [kernel |-> Lst(<<"rbf">>),
             gamma |-> Lst(<<"0", "1e-1", "1e-3">>),
             C |-> Lst(<<"linspace(min_c,1000,3)[0]", "linspace(min_c,1000,3)[1]",
                         "linspace(min_c,1000,3)[2]">>)] >>
    ELSE IF m = "mirowski-svm"
    THEN << [kernel |-> Lst(<<"rbf">>),
             C |-> Lst(<<"16", "96", "176", "256">>),
             gamma |-> Lst(<<"2^-15", "1.25*2^-13", "2.5*2^-13", "2^-11">>)] >>
    ELSE IF m = "sgd"
    THEN << [loss |-> Lst(<<"hinge", "log">>),
             penalty |-> Lst(<<"l1", "l2", "elasticnet">>),
             alpha |-> Lst(<<"0.0001", "0.001", "0.01", "0.1">>)] >>
    ELSE IF m = "random-forest"
    THEN << [max_features |-> Lst(<<"sqrt", "log2">>),
             n_estimators |-> Lst(<<"10", "100", "1000">>),
             criterion |-> Lst(<<"gini", "entropy">>)] >>
    ELSE IF m = "nearest-centroid"
    THEN << [shrink_threshold |-> Bare("None")],
            [shrink_threshold |-> Lst(<<"linspace(0,2,10)[0]", "linspace(0,2,10)[1]",
                        "linspace(0,2,10)[2]", "linspace(0,2,10)[3]",
                        "linspace(0,2,10)[4]", "linspace(0,2,10)[5]",
                        "linspace(0,2,10)[6]", "linspace(0,2,10)[7]",
                        "linspace(0,2,10)[8]", "linspace(0,2,10)[9]">>)] >>
    ELSE IF m = "knn"
    THEN << [algorithm |-> Lst(<<"ball_tree", "kd_tree", "brute">>),
             n_neighbors |-> Lst(<<"1", "2", "3", "4">>)] >>
    ELSE IF m = "bagging"
    THEN << [n_estimators |-> Lst(<<"10", "20">>),
             bootstrap_features |-> Lst(<<"True", "False">>)] >>
    ELSE <<>>

\* the bagging branch writes into the caller's mapping when one is given
BaggingParams(params) ==
    IF params = <<>> THEN params
    ELSE LET withBase == SetItem(params[1], "base_estimator", Bare("base"))
         IN  << IF "max_samples" \in DOMAIN params[1] THEN withBase
                ELSE SetItem(withBase, "max_samples", Bare("0.5")) >>

\* get_model(method, training_data_x, training_data_y, model_params,
\* random_state): l1_min_c is computed before the method is looked at and
\* raises ValueError on ill-posed data; the result carries the caller's
\* mapping as the call leaves it.
get_model(m, params, illPosed) ==
    IF illPosed
    THEN [status |-> "ValueError", estimator |-> NoEstimator,
          param_grid |-> <<>>, model_params |-> params]
    ELSE IF m \notin Methods
    THEN [status |-> "NotImplementedError", estimator |-> NoEstimator,
          param_grid |-> <<>>, model_params |-> params]
    ELSE LET after == IF m = "bagging" THEN BaggingParams(params) ELSE params
         IN  [status |-> "ok", estimator |-> ModelEstimator(m),
              param_grid |-> IF after # <<>> THEN after ELSE DefaultGrid(m),
              model_params |-> after]

-----------------------------------------------------------------------------
(* SpecCV: a frame, then one call of get_cv_generator *)

InitCV ==
    /\ training_data \in
         {fr \in Frames : Cardinality(SegmentsOf(fr)) \in MinSegs..MaxSegs}
    /\ cv = [split |-> FALSE, folds |-> <<>>]
    /\ cv_status = "none"
    /\ SplitIdle
    /\ RegIdle
    /\ SearchIdle
    /\ ReportIdle
    /\ RunIdle

GetCvGenerator ==
    /\ cv_status = "none"
    /\ \E do_segment_split \in BOOLEAN :
         LET r == get_cv_generator(training_data, do_segment_split)
         IN  /\ cv' = [split |-> do_segment_split, folds |-> r.folds]
             /\ cv_status' = r.status
    /\ UNCHANGED <<reportVars, runVars, training_data, splitVars, regVars, searchVars>>

NextCV == GetCvGenerator

SpecCV == InitCV /\ [][NextCV]_vars

-----------------------------------------------------------------------------
\* C1: every fold produced by the segment-aware generator
\* (do_segment_split = True) has no segment id both among its train rows and
\* among its test rows.
C1_SegmentDisjoint ==
    (cv_status = "ok" /\ cv.split) =>
        \A f \in 1..Len(cv.folds) :
            SegmentIds(training_data, cv.folds[f].train)
                \cap SegmentIds(training_data, cv.folds[f].test) = {}

\* a segment-aware run over multi-row segments with a fold that has rows on
\* both sides
C1_Witness ==
    /\ cv_status = "ok" /\ cv.split
    /\ Len(training_data) > Cardinality(SegmentsOf(training_data))
    /\ \E f \in 1..Len(cv.folds) :
         /\ Cardinality(cv.folds[f].test) >= 2
         /\ cv.folds[f].train # {}

\* C2: in every fold of the generator (either mode) train and test are
\* disjoint and together are exactly the row indices of the frame.
C2_FoldPartition ==
    cv_status = "ok" =>
        \A f \in 1..Len(cv.folds) :
            /\ cv.folds[f].train \cap cv.folds[f].test = {}
            /\ cv.folds[f].train \cup cv.folds[f].test = RowsOf(training_data)

C2_Witness ==
    /\ cv_status = "ok" /\ ~cv.split
    /\ Len(cv.folds) = N_FOLDS
    /\ \E f \in 1..Len(cv.folds) :
         cv.folds[f].test # {} /\ cv.folds[f].train # {}

\* C14: the generator follows the fold count K its caller asks for: for each
\* K a caller may ask for (here half the built-in count, and the built-in
\* count), a segment-aware call on a dataset with fewer than K distinct
\* segments ends in the error outcome with no folds, and otherwise yields
\* K folds.
C14_RequestedFoldCount ==
    (cv_status # "none" /\ cv.split) =>
        \A K \in {N_FOLDS \div 2, N_FOLDS} :
            IF K > Cardinality(SegmentsOf(training_data))
            THEN cv_status = "error" /\ cv.folds = <<>>
            ELSE cv_status = "ok" /\ Len(cv.folds) = K

-----------------------------------------------------------------------------
(* The process-wide generator numpy.random, abstracted to a small linear    *)
(* congruential generator: seeding fixes the state, every draw advances it. *)

RngMod == 8                       \* number of generator states
None == -1                        \* Python's None, where a number is expected

SeedState(s) == s % RngMod        \* np.random.seed(seed)
Step(r) == (5 * r + 3) % RngMod   \* one draw: the next state, also the value drawn

\* np.random.rand(n): n values drawn one after the other
RECURSIVE Rand(_, _)
Rand(n, rng) ==
    IF n = 0 THEN [vals |-> <<>>, rng |-> rng]
    ELSE LET r    == Step(rng)
             rest == Rand(n - 1, r)
         IN  [vals |-> <<r>> \o rest.vals, rng |-> rest.rng]

\* np.random.permutation(n): shuffle of 1..n, from the last position down
RECURSIVE Shuffle(_, _, _)
Shuffle(x, i, rng) ==
    IF i <= 1 THEN [perm |-> x, rng |-> rng]
    ELSE LET r == Step(rng)
             j == (r % i) + 1
         IN  Shuffle([x EXCEPT ![i] = x[j], ![j] = x[i]], i - 1, r)

\* a ratio num/den
Ratio(num, den) == [num |-> num, den |-> den]
NoRatio == Ratio(0, 0)            \* Python's None, where a ratio is expected
\* floor(ratio * n): the float product cut to the integer used as a size
FloorMul(ratio, n) == (ratio.num * n) \div ratio.den

\* the rows of a frame at the positions kept, in frame order
RECURSIVE Keep(_, _, _)
Keep(frame, keep, i) ==
    IF i > Len(frame) THEN <<>>
    ELSE (IF i \in keep THEN <<frame[i]>> ELSE <<>>) \o Keep(frame, keep, i + 1)

\* a variant whose second frame is the whole input, the picked rows included
TakeRowsKeepAll(frame, perm, size, rng) ==
    [status |-> "ok",
     train  |-> [k \in 1..size |-> frame[perm[k]]],
     test   |-> frame,
     rng    |-> rng]

\* the two frames random_split returns, given the positions picked:
\* dataframe.ix[rows] (in the order picked) and dataframe.drop(rows)
TakeRows(frame, perm, size, rng) ==
    [status |-> "ok",
     train  |-> [k \in 1..size |-> frame[perm[k]]],
     test   |-> Keep(frame, RowsOf(frame) \ {perm[k] : k \in 1..size}, 1),
     rng    |-> rng]

ShuffleTake(frame, size, sh) == TakeRows(frame, sh.perm, size, sh.rng)

Failed(rng) == [status |-> "error", train |-> <<>>, test |-> <<>>, rng |-> rng]

\* a variant that silently returns what there is when size exceeds the population
ChoiceClipped(frame, size, rng) ==
    ShuffleTake(frame, IF size > Len(frame) THEN Len(frame) ELSE size,
                Shuffle([k \in 1..Len(frame) |-> k], Len(frame), rng))

\* np.random.choice(index, size, replace=False): ValueError when size
\* exceeds the population, else the head of a permutation of the index
Choice(frame, size, rng) ==
    IF size > Len(frame)
    THEN Failed(rng)
    ELSE ShuffleTake(frame, size,
                     Shuffle([k \in 1..Len(frame) |-> k], Len(frame), rng))

\* dataframe[msk], dataframe[~msk]  #train, test
MaskTake(frame, msk, rng) ==
    [status |-> "ok",
     train  |-> Keep(frame, msk, 1),
     test   |-> Keep(frame, RowsOf(frame) \ msk, 1),
     rng    |-> rng]

MaskOf(frame, ratio, vals) ==
    {i \in RowsOf(frame) : vals[i] * ratio.den < ratio.num * RngMod}

DrawnMask(frame, ratio, d) == MaskTake(frame, MaskOf(frame, ratio, d.vals), d.rng)

\* msk = np.random.rand(len(dataframe)) < ratio
MaskSplit(frame, ratio, rng) == DrawnMask(frame, ratio, Rand(Len(frame), rng))

\* random_split(dataframe, ratio, desired_rows, seed); gen is the value
\* random.randrange returns when no seed is given.  The generator is seeded
\* only in that case.
random_split(frame, ratio, desired_rows, seed, gen, rng) ==
    IF ratio = NoRatio /\ desired_rows = None
    THEN Failed(rng) @@ [seed |-> seed]
    ELSE (IF ratio # NoRatio
          THEN MaskSplit(frame, ratio, IF seed = None THEN SeedState(gen) ELSE rng)
          ELSE Choice(frame, desired_rows, IF seed = None THEN SeedState(gen) ELSE rng))
         @@ [seed |-> IF seed = None THEN gen ELSE seed]

\* the second half of the downsampling branch: append the preictal rows and
\* split by training_ratio, with the same seed; dropped is the second frame
\* of the downsampling call, which the caller discards
SplitDownsampled(down, preictal, args, seed, gen) ==
    IF down.status = "error"
    THEN [downsampled |-> <<>>, dropped |-> <<>>] @@ down
    ELSE [downsampled |-> down.train, dropped |-> down.test]
         @@ random_split(down.train \o preictal, args.training_ratio, None,
                         seed, gen, down.rng)

\* split_experiment_data(train_interictal, train_preictal, training_ratio,
\*                       do_downsample, downsample_ratio, seed)
split_experiment_data(interictal, preictal, args, seed, gen, rng) ==
    IF args.do_downsample
    THEN SplitDownsampled(
             random_split(interictal, NoRatio,
                          FloorMul(args.downsample_ratio, Len(preictal)),
                          IF seed = None THEN gen ELSE seed, gen,
                          IF seed = None THEN SeedState(gen) ELSE rng),
             preictal, args, IF seed = None THEN gen ELSE seed, gen)
    ELSE [downsampled |-> interictal, dropped |-> <<>>]
         @@ random_split(interictal \o preictal, args.training_ratio, None,
                         seed, gen, rng)

-----------------------------------------------------------------------------
(* SpecSplit: two class frames and the arguments, then any number of calls  *)
(* of split_experiment_data, with or without a seed, on that same input.    *)
(* The first call and the latest call are kept with their results.          *)

MaxSplitRows == 3      \* most rows of one class in the frames split
MaxSeed == 1           \* seeds are drawn from 0..MaxSeed

Seeds == 0..MaxSeed
DownsampleRatios == {Ratio(1, 2), Ratio(1, 1), Ratio(2, 1)}
TrainingRatios == {Ratio(4, 5), Ratio(1, 1)}

\* n rows of one class, in segments of MaxRowsPerSeg frames (the last one
\* may be shorter), numbered from segment firstSeg
ClassFrame(n, label, firstSeg) ==
    [k \in 1..n |-> [segment  |-> firstSeg + ((k - 1) \div MaxRowsPerSeg),
                     frame    |-> ((k - 1) % MaxRowsPerSeg) + 1,
                     Preictal |-> label]]

NoCall == [seed_in |-> None, seed_used |-> None, status |-> "none",
           downsampled |-> <<>>, dropped |-> <<>>, train |-> <<>>, test |-> <<>>]

InitSplit ==
    /\ CvIdle
    /\ \E ni \in 0..MaxSplitRows, np \in 0..MaxSplitRows :
         /\ train_interictal = ClassFrame(ni, 0, 1)
         /\ train_preictal = ClassFrame(np, 1, MaxSplitRows + 1)
    /\ split_args \in
         { [training_ratio |-> tr, do_downsample |-> dd, downsample_ratio |-> dr] :
             tr \in TrainingRatios, dd \in BOOLEAN, dr \in DownsampleRatios }
    /\ (~split_args.do_downsample => split_args.downsample_ratio = Ratio(1, 1))
    /\ np_random \in 0..(RngMod - 1)
    /\ first_call = NoCall
    /\ last_call = NoCall
    /\ RegIdle
    /\ SearchIdle
    /\ ReportIdle
    /\ RunIdle

CallRecord(seed, r) ==
    [seed_in |-> seed, seed_used |-> r.seed, status |-> r.status,
     downsampled |-> r.downsampled, dropped |-> r.dropped,
     train |-> r.train, test |-> r.test]

\* one call; seed is the argument (None or a seed), gen what randrange returns
SplitExperimentData ==
    /\ \E seed \in Seeds \cup {None}, gen \in Seeds :
         \E r \in {split_experiment_data(train_interictal, train_preictal,
                                        split_args, seed, gen, np_random)} :
           /\ last_call' = CallRecord(seed, r)
           /\ first_call' = IF first_call = NoCall THEN last_call' ELSE first_call
           /\ np_random' = r.rng
    /\ UNCHANGED <<reportVars, runVars, cvVars, regVars, searchVars, train_interictal, train_preictal,
                   split_args>>

NextSplit == SplitExperimentData

SpecSplit == InitSplit /\ [][NextSplit]_vars

-----------------------------------------------------------------------------
\* C3: downsampling with ratio r and p preictal rows returns exactly
\* floor(r*p) interictal rows whenever floor(r*p) is at most the number of
\* interictal rows, and otherwise ends in an error instead of returning
\* fewer rows.
C3_DownsampleCount ==
    split_args.do_downsample =>
        \A c \in {first_call, last_call} \ {NoCall} :
            LET want == FloorMul(split_args.downsample_ratio, Len(train_preictal))
            IN  IF want <= Len(train_interictal)
                THEN /\ c.status = "ok"
                     /\ Len(c.downsampled) = want
                     /\ \A k \in 1..want : c.downsampled[k].Preictal = 0
                ELSE c.status = "error"

\* a call that kept some but not all interictal rows, the product r*p not
\* being whole
C3_Witness ==
    /\ split_args.do_downsample
    /\ last_call.status = "ok"
    /\ Len(last_call.downsampled) > 0
    /\ Len(last_call.downsampled) < Len(train_interictal)
    /\ split_args.downsample_ratio.den = 2 /\ Len(train_preictal) % 2 = 1

\* C4: with a fixed explicit seed, two calls on the same input give the same
\* sample and the same train/test assignment, whatever the generator state.
C4_SeededCallsAgree ==
    (first_call.seed_in # None /\ last_call.seed_in = first_call.seed_in) =>
        /\ last_call.downsampled = first_call.downsampled
        /\ last_call.train = first_call.train
        /\ last_call.test = first_call.test

\* C5: a call without a seed generates one, and a later call on the same
\* input given that seed explicitly reproduces the downsampled set and the
\* train/test split.
C5_ReplayReproduces ==
    (first_call.status # "none" /\ first_call.seed_in = None
        /\ last_call.seed_in = first_call.seed_used) =>
        /\ first_call.seed_used \in Seeds
        /\ last_call.status = first_call.status
        /\ last_call.downsampled = first_call.downsampled
        /\ last_call.train = first_call.train
        /\ last_call.test = first_call.test

\* C15: the train/test split of the experiment data keeps the rows of a
\* segment together: no segment id has rows both in the training partition
\* and in the test partition of a call that returned.
C15_SplitKeepsSegmentsWhole ==
    \A c \in {first_call, last_call} :
        c.status = "ok" =>
            SegmentIds(c.train, RowsOf(c.train))
                \cap SegmentIds(c.test, RowsOf(c.test)) = {}

\* the rows of a frame, as a set
RowSet(frame) == { frame[i] : i \in RowsOf(frame) }

\* C19: a call of split_experiment_data that returns has split by
\* partitions: the training and the test frame hold every row of the
\* working set exactly once; with downsampling the sample holds exactly
\* floor(r*p) distinct interictal rows and, with the frame the call drops,
\* every interictal row exactly once; so the working set holds every
\* preictal row and no interictal row that is not in the input.
C19_SplitsArePartitions ==
    \A c \in {first_call, last_call} :
        c.status = "ok" =>
            LET working == c.downsampled \o train_preictal
            IN  /\ RowSet(c.train) \cap RowSet(c.test) = {}
                /\ RowSet(c.train) \cup RowSet(c.test) = RowSet(working)
                /\ Len(c.train) + Len(c.test) = Len(working)
                /\ split_args.do_downsample =>
                      /\ Len(c.downsampled) =
                            FloorMul(split_args.downsample_ratio, Len(train_preictal))
                      /\ Cardinality(RowSet(c.downsampled)) = Len(c.downsampled)
                      /\ RowSet(c.downsampled) \cap RowSet(c.dropped) = {}
                      /\ RowSet(c.downsampled) \cup RowSet(c.dropped)
                            = RowSet(train_interictal)
                      /\ Len(c.downsampled) + Len(c.dropped) = Len(train_interictal)
                /\ RowSet(train_preictal) \subseteq RowSet(working)
                /\ \A i \in RowsOf(working) :
                       working[i].Preictal = 0 => working[i] \in RowSet(train_interictal)

\* a downsampling call that kept some and dropped some interictal rows and
\* put rows on both sides of the train/test split
C19_Witness ==
    /\ split_args.do_downsample
    /\ last_call.status = "ok"
    /\ last_call.downsampled # <<>> /\ last_call.dropped # <<>>
    /\ last_call.train # <<>> /\ last_call.test # <<>>
    /\ train_preictal # <<>>

-----------------------------------------------------------------------------
(* SpecRegistry: a method name, an override mapping (or none) and training  *)
(* data, then one registry call: get_model_class or get_model.              *)

MethodNames == Methods \cup {"not-a-real-method", "naive-bayes", ""}

\* override mappings a caller may give
ParamChoices ==
    { <<>>,
      << [C |-> Lst(<<"1">>)] >>,
      << [C |-> Lst(<<"1", "10">>), kernel |-> Lst(<<"rbf">>)] >>,
      << [n_estimators |-> Lst(<<"10">>)] >>,
      << [n_estimators |-> Lst(<<"10", "20">>), max_samples |-> Lst(<<"0.5", "1.0">>)] >>,
      << [alpha |-> Lst(<<"0.0001", "0.001", "0.01">>)] >> }

InitRegistry ==
    /\ CvIdle
    /\ SplitIdle
    /\ method \in MethodNames
    /\ model_params \in ParamChoices
    /\ ill_posed \in BOOLEAN
    /\ reg_in = model_params
    /\ reg_out = NoResult
    /\ SearchIdle
    /\ ReportIdle
    /\ RunIdle

GetModelClass ==
    /\ reg_out.call = "none"
    /\ \E r \in {get_model_class(method)} :
         reg_out' = [call |-> "get_model_class", status |-> r.status,
                     estimator |-> Estimator(r.family, <<>>), param_grid |-> <<>>]
    /\ UNCHANGED <<reportVars, runVars, cvVars, splitVars, searchVars, method, model_params, ill_posed,
                   reg_in>>

GetModel ==
    /\ reg_out.call = "none"
    /\ \E r \in {get_model(method, model_params, ill_posed)} :
         /\ reg_out' = [call |-> "get_model", status |-> r.status,
                        estimator |-> r.estimator, param_grid |-> r.param_grid]
         /\ model_params' = r.model_params
    /\ UNCHANGED <<reportVars, runVars, cvVars, splitVars, searchVars, method, ill_posed, reg_in>>

NextRegistry == GetModelClass \/ GetModel

SpecRegistry == InitRegistry /\ [][NextRegistry]_vars

-----------------------------------------------------------------------------
\* C6: for every method name outside the enumeration the registry lookup
\* (get_model_class and get_model) ends in the unsupported-method error and
\* returns no estimator or grid; for every name inside it returns an
\* estimator of that family.
C6_LookupOutcome ==
    reg_out.call # "none" =>
        IF method \in Methods
        THEN /\ reg_out.status = "ok"
             /\ reg_out.estimator.family = get_model_class(method).family
        ELSE /\ reg_out.status = "NotImplementedError"
             /\ reg_out.estimator.family = "none"
             /\ reg_out.param_grid = <<>>

\* C10: for every supported method, when the caller supplies overrides, the
\* grid get_model returns is exactly the caller's overrides.
C10_GridIsOverrides ==
    (reg_out.call = "get_model" /\ reg_out.status = "ok" /\ reg_in # <<>>) =>
        reg_out.param_grid = reg_in

\* C18: get_model leaves the override mapping of its caller as it was given:
\* after the call, for every method, model_params has the keys and values
\* it had before.
C18_OverridesUnchanged ==
    reg_out.call = "get_model" => model_params = reg_in

-----------------------------------------------------------------------------
(* select_model: get_cv_generator, get_model, then GridSearchCV(estimator,  *)
(* param_grid, cv, scoring, n_jobs = processes, refit = True, iid = False)  *)
(* and its fit.                                                             *)

\* the axis names in the order sorted() gives them
AxisOrder == <<"C", "algorithm", "alpha", "base_estimator", "bootstrap_features",
               "criterion", "gamma", "kernel", "loss", "max_features",
               "max_samples", "n_estimators", "n_neighbors", "penalty",
               "random_state", "shrink_threshold">>

SortedKeys(d) == SelectSeq(AxisOrder, LAMBDA k : k \in DOMAIN d)

RECURSIVE Flatten(_)
Flatten(ss) == IF ss = <<>> THEN <<>> ELSE Head(ss) \o Flatten(Tail(ss))

\* product(*values) over the sorted items of one dict: the first key varies
\* slowest; a dict without items gives the one empty configuration
RECURSIVE Product(_, _)
Product(d, keys) ==
    IF keys = <<>> THEN << <<>> >>
    ELSE Flatten([i \in 1..Len(d[Head(keys)].vals) |->
             [j \in 1..Len(Product(d, Tail(keys))) |->
                 SetItem(Product(d, Tail(keys))[j], Head(keys),
                         d[Head(keys)].vals[i])]])

\* ParameterGrid(param_grid): the configurations, dict after dict
ParameterGrid(grid) ==
    Flatten([i \in 1..Len(grid) |-> Product(grid[i], SortedKeys(grid[i]))])

\* _check_param_grid: every value is a list, and no list is empty
check_param_grid(grid) ==
    \A i \in 1..Len(grid) : \A k \in DOMAIN grid[i] :
        grid[i][k].list /\ Len(grid[i][k].vals) > 0

\* the parameter names set_params accepts, for the families the runs use
EstimatorParams(family) ==
    IF family = "LogisticRegression" THEN {"C", "penalty", "random_state"}
    ELSE IF family = "SVC" THEN {"C", "kernel", "gamma", "random_state"}
    ELSE IF family = "BaggingClassifier"
    THEN {"n_estimators", "max_samples", "bootstrap_features", "base_estimator"}
    ELSE IF family = "NearestCentroid" THEN {"shrink_threshold"}
    ELSE IF family = "SGDClassifier"
    THEN {"loss", "penalty", "alpha", "random_state"}
    ELSE {}

\* the estimators get_model builds without a random_state: their fit draws
\* from the generator of the process it runs in
DrawsFromProcess(family) ==
    family \in {"SGDClassifier", "RandomForestClassifier", "BaggingClassifier"}

\* the generator of the process after one fit of the estimator
FitDraw(family, rng) == IF DrawsFromProcess(family) THEN Step(rng) ELSE rng

\* the (configuration, fold) of the t-th evaluation: configurations outer,
\* folds inner
TaskConfig(t) == ((t - 1) \div N_FOLDS) + 1
TaskFold(t) == ((t - 1) % N_FOLDS) + 1
TaskOf(c, f) == (c - 1) * N_FOLDS + f

LabelsOf(frame, idx) == { frame[i].Preictal : i \in idx }

\* a variant that scores a fold lacking a class instead of raising
FitRaisesParamsOnly(frame, fold, family, params) ==
    ~(DOMAIN params \subseteq EstimatorParams(family))

\* _fit_and_score on one fold: set_params, fit on the train rows, score the
\* test rows with roc_auc_score.  It raises when a parameter is not one of
\* the estimator's, and when the train or the test rows lack a class.
FitRaises(frame, fold, family, params) ==
    \/ ~(DOMAIN params \subseteq EstimatorParams(family))
    \/ LabelsOf(frame, fold.train) # Labels
    \/ LabelsOf(frame, fold.test) # Labels

\* sklearn.metrics.make_scorer(score_func, needs_proba = False,
\* needs_threshold = False, **kwargs): which kind of scorer it builds
make_scorer(needs_proba, needs_threshold) ==
    IF needs_proba THEN "_ProbaScorer"
    ELSE IF needs_threshold THEN "_ThresholdScorer"
    ELSE "_PredictScorer"

\* scorer = make_scorer(roc_auc_score, average = 'weighted')
scorer == make_scorer(FALSE, FALSE)

\* the output of the estimator a scorer hands to the score function
ScorerInput(sc) ==
    IF sc = "_ProbaScorer" THEN "predict_proba"
    ELSE IF sc = "_ThresholdScorer" THEN "decision_function"
    ELSE "predict"

\* whether the estimator get_model built exposes predict_proba
SupportsProba(estimator) ==
    \/ estimator.family \in {"LogisticRegression", "RandomForestClassifier",
                             "KNeighborsClassifier", "BaggingClassifier"}
    \/ /\ estimator.family = "SVC"
       /\ \E i \in DOMAIN estimator.args : estimator.args[i] = "probability=True"

\* the score the scorer gives configuration c on fold f: 1 on the first
\* table[c] folds, 0 on the others
Score(table, c, f) == IF f <= table[c] THEN 1 ELSE 0

\* the score of one evaluation: that of the table, except that a fit which
\* draws its initialisation from the process generator fails to separate
\* the classes (score 0) on one draw in four
FitScore(table, c, f, family, drawn) ==
    IF DrawsFromProcess(family) /\ drawn % 4 = 0 THEN 0 ELSE Score(table, c, f)

RECURSIVE SumOver(_, _, _)
SumOver(scores, c, f) ==
    IF f = 0 THEN 0 ELSE scores[TaskOf(c, f)] + SumOver(scores, c, f - 1)

\* grid_scores_: per configuration the sum of its fold scores (iid = False:
\* the mean is this sum over n_folds, the same divisor for all)
GridScores(scores, n) == [c \in 1..n |-> SumOver(scores, c, N_FOLDS)]

\* a variant that keeps the last of the configurations with the best mean
LastArgMax(means) ==
    CHOOSE b \in DOMAIN means :
        /\ \A c \in DOMAIN means : means[c] <= means[b]
        /\ \A c \in DOMAIN means : c > b => means[c] < means[b]

\* sorted(grid_scores, key = mean, reverse = True)[0]: the sort is stable,
\* so among equal means the first in enumeration order comes first
FirstArgMax(means) ==
    CHOOSE b \in DOMAIN means :
        /\ \A c \in DOMAIN means : means[c] <= means[b]
        /\ \A c \in DOMAIN means : c < b => means[c] < means[b]

\* a variant that keeps the estimator of the last cross-validation fit
RefitLastFold(frame, folds, params) ==
    [rows |-> folds[Len(folds)].train, params |-> params]

\* refit = True: clone(base_estimator).set_params(**best.parameters) fit on
\* the whole X, y
Refit(frame, folds, params) == [rows |-> RowsOf(frame), params |-> params]

\* Parallel returns the results in dispatch order
Collect(scores, t, score) == SetItem(scores, t, score)

\* the selection made from the collected scores
Select(frame, folds, cfgs, scores) ==
    LET means == GridScores(scores, Len(cfgs))
    IN  [best_index   |-> FirstArgMax(means),
         best_params  |-> cfgs[FirstArgMax(means)],
         grid_scores  |-> means,
         refit_rows   |-> Refit(frame, folds, cfgs[FirstArgMax(means)]).rows,
         refit_params |-> Refit(frame, folds, cfgs[FirstArgMax(means)]).params]

-----------------------------------------------------------------------------
(* SpecSearch: one run of select_model.  The evaluations are handed to at   *)
(* most `processes` workers in enumeration order and finish in any order.   *)

MaxProcesses == 2
MaxScore == 2

\* frames with as many segments per class as folds, and too few
SearchFrames ==
    { MakeFrame(SegLabelSeq(n, n, FALSE), MaxRowsPerSeg, MaxRowsPerSeg, 1) :
        n \in {N_FOLDS \div 2 - 1, N_FOLDS} }

\* (method, model_params) of the runs with estimators whose fit is a
\* function of the data: grids of one and of two configurations, a
\* parameter the estimator does not have, the bagging branch with
\* overrides, a default grid, a grid with an empty list of candidates, and
\* an unsupported method
SearchInputs ==
    { [method |-> "logistic", params |-> << [C |-> Lst(<<"1">>)] >>],
      [method |-> "svm",
       params |-> << [C |-> Lst(<<"1", "10">>), kernel |-> Lst(<<"rbf">>)] >>],
      [method |-> "logistic",
       params |-> << [C |-> Lst(<<"1", "10">>), kernel |-> Lst(<<"rbf">>)] >>],
      [method |-> "bagging", params |-> << [n_estimators |-> Lst(<<"10">>)] >>],
      [method |-> "nearest-centroid", params |-> <<>>],
      [method |-> "svm", params |-> << [C |-> Lst(<<>>)] >>],
      [method |-> "not-a-real-method", params |-> << [C |-> Lst(<<"1">>)] >>] }

\* runs with an estimator built without a random_state
WorkerInputs ==
    { [method |-> "sgd", params |-> << [alpha |-> Lst(<<"0.0001", "0.001">>)] >>] }

\* the number of configurations the run will evaluate (0 when it never
\* gets that far)
GridSize(m, params) ==
    LET r == get_model(m, params, FALSE)
    IN  IF r.status = "ok" /\ check_param_grid(r.param_grid)
        THEN Len(ParameterGrid(r.param_grid)) ELSE 0

\* the process generator as train_model's np.random.seed(random_state)
\* leaves it before select_model is called
SeededGenerator == SeedState(0)

SearchStart(inputs) ==
    /\ training_data \in SearchFrames
    /\ cv = [split |-> FALSE, folds |-> <<>>]
    /\ cv_status = "none"
    /\ train_interictal = <<>> /\ train_preictal = <<>> /\ split_args = <<>>
    /\ first_call = <<>> /\ last_call = <<>>
    /\ np_random = SeededGenerator
    /\ \E in \in inputs :
         /\ method = in.method
         /\ model_params = in.params
         /\ score_table \in [1..GridSize(in.method, in.params) -> 0..MaxScore]
    /\ ill_posed \in BOOLEAN
    /\ reg_in = model_params
    /\ reg_out = NoResult
    /\ processes \in 1..MaxProcesses
    /\ pc = "start"
    /\ configs = <<>> /\ next_task = 1 /\ running = {} /\ idle = EmptyBag
    /\ out = <<>> /\ completed = 0 /\ overtaken = FALSE
    /\ result = NoSelection /\ scored_from = "none"
    /\ ReportIdle
    /\ RunIdle

\* cv = get_cv_generator(training_data, do_segment_split, random_state)
SelectCv ==
    /\ pc = "start"
    /\ \E do_segment_split \in BOOLEAN :
         \E r \in {get_cv_generator(training_data, do_segment_split)} :
             /\ cv' = [split |-> do_segment_split, folds |-> r.folds]
             /\ cv_status' = r.status
             /\ pc' = IF r.status = "ok" THEN "cv" ELSE "ValueError"
    /\ UNCHANGED <<reportVars, runVars, training_data, splitVars, regVars, processes, score_table,
                   configs, next_task, running, idle, out, completed,
                   overtaken, result, scored_from>>

\* model_dict = get_model(method, x, y, model_params, random_state)
SelectGetModel ==
    /\ pc = "cv"
    /\ \E r \in {get_model(method, model_params, ill_posed)} :
         /\ reg_out' = [call |-> "get_model", status |-> r.status,
                        estimator |-> r.estimator, param_grid |-> r.param_grid]
         /\ model_params' = r.model_params
         /\ pc' = IF r.status = "ok" THEN "model" ELSE r.status
    /\ UNCHANGED <<reportVars, runVars, cvVars, splitVars, method, ill_posed, reg_in, processes,
                   score_table, configs, next_task, running, idle, out,
                   completed, overtaken, result, scored_from>>

\* clf = GridSearchCV(**cv_kwargs), and the start of clf.fit: the grid is
\* checked and enumerated, and the workers start as copies of the calling
\* process (with one process the evaluations run in the calling process)
GridSearch ==
    /\ pc = "model"
    /\ IF check_param_grid(reg_out.param_grid)
       THEN /\ configs' = ParameterGrid(reg_out.param_grid)
            /\ idle' = [r \in {np_random} |-> processes]
            /\ pc' = "fit"
       ELSE /\ pc' = "ValueError"
            /\ UNCHANGED <<configs, idle>>
    /\ UNCHANGED <<reportVars, runVars, cvVars, splitVars, regVars, processes, score_table,
                   next_task, running, out, completed, overtaken, result,
                   scored_from>>

\* a free worker takes the next evaluation
Dispatch ==
    /\ pc = "fit"
    /\ next_task <= Len(configs) * N_FOLDS
    /\ \E r \in BagToSet(idle) :
         /\ idle' = idle (-) SetToBag({r})
         /\ running' = running \cup {[task |-> next_task, rng |-> r]}
    /\ next_task' = next_task + 1
    /\ UNCHANGED <<reportVars, runVars, cvVars, splitVars, regVars, processes, score_table, pc,
                   configs, out, completed, overtaken, result, scored_from>>

\* a worker finishes its evaluation; an exception in it ends the search
Complete ==
    /\ pc = "fit"
    /\ \E w \in running :
         IF FitRaises(training_data, cv.folds[TaskFold(w.task)],
                      reg_out.estimator.family, configs[TaskConfig(w.task)])
         THEN /\ pc' = "ValueError"
              /\ running' = {}
              /\ UNCHANGED <<np_random, idle, out, completed, overtaken,
                             scored_from>>
         ELSE \E drawn \in {FitDraw(reg_out.estimator.family, w.rng)} :
              /\ idle' = idle (+) SetToBag({drawn})
              /\ np_random' = IF processes = 1 THEN drawn ELSE np_random
              /\ out' = Collect(out, w.task,
                            FitScore(score_table, TaskConfig(w.task),
                                     TaskFold(w.task),
                                     reg_out.estimator.family, drawn))
              /\ completed' = completed + 1
              /\ scored_from' = ScorerInput(scorer)
              /\ overtaken' = (overtaken \/ \E v \in running : v.task < w.task)
              /\ running' = running \ {w}
              /\ pc' = pc
    /\ UNCHANGED <<reportVars, runVars, cvVars, train_interictal, train_preictal, split_args,
                   first_call, last_call, regVars, processes, score_table,
                   configs, next_task, result>>

\* all evaluations are in: pick the best configuration and refit it
SelectBest ==
    /\ pc = "fit"
    /\ next_task > Len(configs) * N_FOLDS
    /\ running = {}
    /\ result' = Select(training_data, cv.folds, configs, out)
    /\ pc' = "done"
    /\ UNCHANGED <<reportVars, runVars, cvVars, splitVars, regVars, processes, score_table,
                   configs, next_task, running, idle, out, completed,
                   overtaken, scored_from>>

NextSearch ==
    SelectCv \/ SelectGetModel \/ GridSearch \/ Dispatch \/ Complete \/ SelectBest

InitSearch == SearchStart(SearchInputs)

SpecSearch == InitSearch /\ [][NextSearch]_vars

\* SpecWorkers: the same run with an estimator whose fit draws from the
\* generator of the process it runs in
InitWorkers == SearchStart(WorkerInputs)

SpecWorkers == InitWorkers /\ [][NextSearch]_vars

-----------------------------------------------------------------------------
C8_HighestMeanFirstWins ==
    pc = "done" =>
        /\ result.best_index \in 1..Len(configs)
        /\ result.best_params = configs[result.best_index]
        /\ \A c \in 1..Len(configs) :
               /\ SumOver(out, c, N_FOLDS) <= SumOver(out, result.best_index, N_FOLDS)
               /\ c < result.best_index =>
                      SumOver(out, c, N_FOLDS) < SumOver(out, result.best_index, N_FOLDS)

\* a finished search in which two configurations tie with the best mean
C8_Witness ==
    /\ pc = "done" /\ Len(configs) = 2
    /\ SumOver(out, 1, N_FOLDS) = SumOver(out, 2, N_FOLDS)
    /\ SumOver(out, 1, N_FOLDS) > 0
    /\ result.best_index = 1

\* the scores of the evaluations t..n run one after the other in the
\* calling process, from the generator state rng
RECURSIVE SequentialScores(_, _, _, _, _)
SequentialScores(table, family, t, n, rng) ==
    IF t > n THEN <<>>
    ELSE << FitScore(table, TaskConfig(t), TaskFold(t), family,
                     FitDraw(family, rng)) >>
         \o SequentialScores(table, family, t + 1, n, FitDraw(family, rng))

\* C9: whatever the number of workers and the order in which they finish,
\* the configuration select_model selects is the one the same search run
\* in one process from the seeded generator selects.
C9_SelectionIndependentOfWorkers ==
    pc = "done" =>
        result.best_index =
            FirstArgMax(GridScores(
                SequentialScores(score_table, reg_out.estimator.family, 1,
                                 Len(configs) * N_FOLDS, SeededGenerator),
                Len(configs)))

-----------------------------------------------------------------------------
\* C11: every fold x configuration score of the grid search is computed
\* from the predicted class-1 probability when the estimator exposes
\* probability output, and from hard class predictions only when it does
\* not.
C11_ScoreFromProbability ==
    (pc \in {"fit", "done"} /\ completed > 0) =>
        scored_from = IF SupportsProba(reg_out.estimator)
                      THEN "predict_proba" ELSE "predict"

-----------------------------------------------------------------------------
\* C16: a fit or score failure of a single fold x configuration evaluation
\* is fatal to the run of select_model: a run that ended in an error has
\* returned no model and chosen no best configuration, no failing
\* evaluation is ever among the collected scores, and a run returns only
\* with the score of every evaluation of the grid.
C16_FitFailureAborts ==
    /\ pc \notin {"start", "cv", "model", "fit", "done"} => result = NoSelection
    /\ \A t \in DOMAIN out :
           /\ DOMAIN configs[TaskConfig(t)]
                  \subseteq EstimatorParams(reg_out.estimator.family)
           /\ LabelsOf(training_data, cv.folds[TaskFold(t)].train) = Labels
           /\ LabelsOf(training_data, cv.folds[TaskFold(t)].test) = Labels
    /\ pc = "done" => DOMAIN out = 1..(Len(configs) * N_FOLDS)

\* a run that ended in an error after some of its evaluations had succeeded
C16_Witness ==
    /\ pc = "ValueError"
    /\ completed > 0 /\ DOMAIN out # {}
    /\ next_task > completed
    /\ result = NoSelection

\* C17: a run of select_model whose configuration is invalid (unsupported
\* method, a hyperparameter grid with an empty list of candidates, more
\* folds than distinct segments) and that ended in an error has dispatched
\* no evaluation.
C17_ConfigErrorBeforeDispatch ==
    (/\ pc \notin {"start", "cv", "model", "fit", "done"}
     /\ \/ method \notin Methods
        \/ \E i \in DOMAIN reg_in : \E k \in DOMAIN reg_in[i] :
               reg_in[i][k].list /\ reg_in[i][k].vals = <<>>
        \/ N_FOLDS > Cardinality(SegmentsOf(training_data)))
        => next_task = 1 /\ running = {} /\ completed = 0

-----------------------------------------------------------------------------
(* The evaluation step: predict, get_report and cm_report.                  *)
(* A fitted classifier is what the evaluation needs of it: whether it       *)
(* exposes predict_proba, its class ordering classes_, and the label its    *)
(* predict gives each held-out row.                                         *)

MaxHeldOut == 4        \* most rows of a held-out set

Classifier(has_proba, classes, hard) ==
    [has_proba |-> has_proba, classes |-> classes, hard |-> hard]

\* clf.predict_proba(test_data): per row one column per class, in the
\* order of classes_ (in percent: 75 for the class predict gives, else 25)
predict_proba(c) ==
    [i \in DOMAIN c.hard |->
        [k \in DOMAIN c.classes |-> IF c.classes[k] = c.hard[i] THEN 75 ELSE 25]]

\* list(classes).index(1)
IndexOf(classes, label) ==
    CHOOSE k \in DOMAIN classes :
        classes[k] = label /\ \A j \in 1..(k - 1) : classes[j] # label

\* predict(clf, test_data, probabilities)
predict(c, probabilities) ==
    IF probabilities /\ c.has_proba
    THEN [kind |-> "probability",
          vals |-> [i \in DOMAIN c.hard |->
                       predict_proba(c)[i][IndexOf(c.classes, 1)]]]
    ELSE [kind |-> "labels", vals |-> c.hard]

\* the labels that occur, in sorted order
SortedLabels(present) ==
    [k \in 1..Cardinality(present) |->
        CHOOSE l \in present : Cardinality({m \in present : m < l}) = k - 1]

MatrixOver(labels, y_true, y_pred) ==
    [i \in DOMAIN labels |-> [j \in DOMAIN labels |->
        Cardinality({k \in DOMAIN y_true :
                        y_true[k] = labels[i] /\ y_pred[k] = labels[j]})]]

\* sklearn.metrics.confusion_matrix(y_true, y_pred), labels not given: the
\* matrix is over the labels that occur in y_true or y_pred
confusion_matrix(y_true, y_pred) ==
    MatrixOver(SortedLabels({y_true[k] : k \in DOMAIN y_true}
                                \cup {y_pred[k] : k \in DOMAIN y_pred}),
               y_true, y_pred)

\* cm_report(cm, labels): one line per label with the cells cm[i, j] for j
\* over the labels; cm[i, j] outside the matrix raises IndexError
cm_report(cm, labels) ==
    IF Len(cm) < Len(labels)
    THEN [status |-> "IndexError", table |-> <<>>]
    ELSE [status |-> "ok",
          table  |-> [i \in DOMAIN labels |->
                         [label |-> labels[i],
                          cells |-> [j \in DOMAIN labels |-> cm[i][j]]]]]

ReportOf(pred, cm) ==
    [used |-> pred.kind, cm |-> cm]
        @@ cm_report(cm, <<"Interictal", "Preictal">>)

\* get_report(clf, test_data_x, test_data_y)
get_report(c, y_true) ==
    ReportOf(predict(c, FALSE), confusion_matrix(y_true, predict(c, FALSE).vals))

InitReport ==
    /\ CvIdle /\ SplitIdle /\ RegIdle /\ SearchIdle /\ RunIdle
    /\ \E n \in 1..MaxHeldOut :
         /\ test_data_y \in [1..n -> Labels]
         /\ clf \in { Classifier(hp, cl, hard) :
                        hp \in BOOLEAN, cl \in {<<0, 1>>, <<1, 0>>},
                        hard \in [1..n -> Labels] }
    /\ predictions = NoPredictions
    /\ report = NoReport

\* predictions = predict(clf, test_data), with or without probabilities
Predict ==
    /\ predictions = NoPredictions
    /\ \E probabilities \in BOOLEAN : predictions' = predict(clf, probabilities)
    /\ UNCHANGED <<cvVars, splitVars, regVars, searchVars, runVars, clf,
                   test_data_y, report>>

\* report = get_report(clf, test_data_x, test_data_y)
GetReport ==
    /\ report = NoReport
    /\ report' = get_report(clf, test_data_y)
    /\ UNCHANGED <<cvVars, splitVars, regVars, searchVars, runVars, clf,
                   test_data_y, predictions>>

NextReport == Predict \/ GetReport

SpecReport == InitReport /\ [][NextReport]_vars

\* C12: the predictions the evaluation step (get_report) uses are the
\* class-1 probability column whenever the classifier exposes probability
\* output, and hard labels only when it does not.
C12_ReportUsesProbability ==
    report.status # "none" =>
        report.used = IF clf.has_proba THEN "probability" ELSE "labels"

\* C13: the report built for a held-out set has a confusion matrix over
\* (Interictal, Preictal) with cell (i, j) the number of held-out rows of
\* true class i predicted as class j, and the cells sum to the number of
\* held-out rows.
C13_ConfusionMatrixCounts ==
    report.status # "none" =>
        /\ report.status = "ok"
        /\ Len(report.table) = 2
        /\ report.table[1].label = "Interictal"
        /\ report.table[2].label = "Preictal"
        /\ \A i \in 1..2 : \A j \in 1..2 :
               report.table[i].cells[j] =
                   Cardinality({k \in DOMAIN test_data_y :
                       test_data_y[k] = i - 1 /\ clf.hard[k] = j - 1})
        /\ report.table[1].cells[1] + report.table[1].cells[2]
               + report.table[2].cells[1] + report.table[2].cells[2]
               = Len(test_data_y)

-----------------------------------------------------------------------------
(* run_classification of wavelet_classification.py: build a model when     *)
(* rebuild_model is set, save it, and score the unlabeled segments.        *)

\* ceil(ratio * n): the size train_test_split gives the test part
CeilMul(ratio, n) == (ratio.num * n + ratio.den - 1) \div ratio.den

create_model(m) ==
    IF m = "svm" THEN [status |-> "ok", family |-> "SVC"]
    ELSE IF m = "sgd" THEN [status |-> "ok", family |-> "SGDClassifier"]
    ELSE IF m = "random-forest"
    THEN [status |-> "ok", family |-> "RandomForestClassifier"]
    ELSE [status |-> "NotImplementedError", family |-> "none"]

\* the grid of the method; the function falls off its end (returns None)
\* for every method but svm and sgd
parameters_for_method(m) ==
    IF m = "svm"
    THEN [given |-> TRUE,
          grid  |-> << [kernel |-> Lst(<<"rbf">>),
                        gamma |-> Lst(<<"0", "1e-1", "1e-2", "1e-3">>),
                        C |-> Lst(<<"10", "100", "1000">>)] >>]
    ELSE IF m = "sgd"
    THEN [given |-> TRUE,
          grid  |-> << [loss |-> Lst(<<"hinge", "log">>),
                        penalty |-> Lst(<<"l1", "l2", "elasticnet">>),
                        alpha |-> Lst(<<"0.0001", "0.001", "0.01", "0.1">>)] >>]
    ELSE [given |-> FALSE, grid |-> <<>>]

NoModel(status) == [status |-> status, clf |-> Unbound]

\* find_best_model(feature_folder, training_ratio = 0.8, do_downsample =
\* True, method, seed) on `interictal` and `preictal` rows: downsample to
\* as many interictal rows as there are preictal ones, keep every row
\* (training_ratio = 1.0), hold out ceil(0.8 * n) rows, build the 10 folds
\* on the others and run the grid search; raised says whether an
\* evaluation of the search raises.  A method without a grid reaches
\* GridSearchCV with None.
find_best_model(interictal, preictal, m, raised) ==
    IF FloorMul(Ratio(1, 1), preictal) > interictal THEN NoModel("ValueError")
    ELSE IF create_model(m).status # "ok" THEN NoModel(create_model(m).status)
    ELSE IF N_FOLDS > 2 * preictal - CeilMul(Ratio(4, 5), 2 * preictal)
    THEN NoModel("ValueError")
    ELSE IF ~parameters_for_method(m).given THEN NoModel("TypeError")
    ELSE IF raised THEN NoModel("ValueError")
    ELSE [status |-> "ok", clf |-> "GridSearchCV(" \o create_model(m).family \o ")"]

\* the file name made from the method and the time stamp
ModelBasename(m) == "model_" \o m \o "_timestamp.pickle"

\* write_scores(feature_folder, unlabeled, model, timestamp): the reference
\* to the local variable model is evaluated first
write_scores(m) ==
    IF m = Unbound
    THEN [status |-> "UnboundLocalError", scores |-> <<>>]
    ELSE [status |-> "ok", scores |-> <<m>>]

\* the numbers of rows of one class in the feature folder: none, too few
\* for ten folds after the hold-out, enough
RunCounts == {0, 2 * N_FOLDS, 3 * N_FOLDS}

RunMethods == {"svm", "sgd", "random-forest", "logistic", "not-a-real-method"}

InitRun ==
    /\ CvIdle /\ SplitIdle /\ RegIdle /\ SearchIdle /\ ReportIdle
    /\ run_args \in
         { [rebuild_model |-> rb, model_file |-> mf, method |-> m,
            interictal |-> ni, preictal |-> np] :
             rb \in BOOLEAN, mf \in {"None", "model.pickle"},
             m \in RunMethods, ni \in RunCounts, np \in RunCounts }
    /\ run_pc = "start"
    /\ model = Unbound
    /\ model_file = run_args.model_file
    /\ run_scores = <<>>

\* if rebuild_model: model = find_best_model(...)
FindBestModel ==
    /\ run_pc = "start"
    /\ run_args.rebuild_model
    /\ \E raised \in BOOLEAN :
         \E r \in {find_best_model(run_args.interictal, run_args.preictal,
                                   run_args.method, raised)} :
             /\ model' = r.clf
             /\ run_pc' = IF r.status = "ok" THEN "trained" ELSE r.status
    /\ UNCHANGED <<cvVars, splitVars, regVars, searchVars, reportVars,
                   run_args, model_file, run_scores>>

\* a file name when none was given, then pickle.dump(model, fp)
DumpModel ==
    /\ run_pc = "trained"
    /\ model_file' = IF model_file = "None"
                     THEN ModelBasename(run_args.method) ELSE model_file
    /\ run_pc' = "dumped"
    /\ UNCHANGED <<cvVars, splitVars, regVars, searchVars, reportVars,
                   run_args, model, run_scores>>

\* scores = write_scores(feature_folder, unlabeled, model, timestamp):
\* reached after the rebuild branch, or at once when rebuild_model is off
WriteScores ==
    /\ \/ run_pc = "dumped"
       \/ run_pc = "start" /\ ~run_args.rebuild_model
    /\ \E r \in {write_scores(model)} :
         /\ run_scores' = r.scores
         /\ run_pc' = IF r.status = "ok" THEN "scored" ELSE r.status
    /\ UNCHANGED <<cvVars, splitVars, regVars, searchVars, reportVars,
                   run_args, model, model_file>>

NextRun == FindBestModel \/ DumpModel \/ WriteScores

SpecRun == InitRun /\ [][NextRun]_vars

\* C20: on every path of run_classification, with rebuild_model set or not
\* and model_file given or not, the local variable model is defined when
\* write_scores is called, and the unlabeled segments are scored with it.
C20_ModelDefinedBeforeScoring ==
    /\ run_pc # "UnboundLocalError"
    /\ run_pc = "scored" => model # Unbound /\ run_scores = <<model>>

\* C21: every method for which create_model returns an estimator has a
\* grid from parameters_for_method that is given and not empty, so no run
\* of find_best_model reaches the grid search without a grid (the
\* TypeError outcome); a run that built a model had such a grid, and a
\* run rejected as not implemented is one whose method create_model
\* does not know.
C21_EstimatorHasGrid ==
    /\ run_pc # "TypeError"
    /\ run_pc \in {"trained", "dumped", "scored"} /\ run_args.rebuild_model =>
           /\ create_model(run_args.method).status = "ok"
           /\ parameters_for_method(run_args.method).given
           /\ parameters_for_method(run_args.method).grid # <<>>
    /\ run_pc = "NotImplementedError" =>
           create_model(run_args.method).status # "ok"

=============================================================================
